---- MODULE Spec2Model ----
(***************************************************************************)
(* Model of topological_learning/dependencies/__init__.py: the module     *)
(* body that resolves the names bottleneck_distance and wasserstein, one  *)
(* step per statement, followed by calls of the resolved functions.       *)
(***************************************************************************)
EXTENDS Integers, Sequences, FiniteSets, TLC

\* ---- bounds ----
MaxCalls == 2
MaxDist == 1
MaxArg == 2

\* ---- program constants ----
DefaultP == 1
\* delta is counted in hundredths: the default 0.01 is 1
DefaultDelta == 1

\* pc        the statement the module body is at ("L<line>", "done", "failed")
\* ns        the module namespace: what each name is bound to
\* writes    how many binding statements have run for each name
\* stdout    the lines printed so far
\* metaPath  sys.meta_path; metaPath0 is its value before the import
\* loaded    the outcome of each import attempt
\* exc       the exception that left the module body, if any
\* ncalls, lastCall   calls of the resolved functions after the import
VARIABLES pc, ns, writes, stdout, metaPath, metaPath0, loaded, exc, ncalls, lastCall

vars == <<pc, ns, writes, stdout, metaPath, metaPath0, loaded, exc, ncalls, lastCall>>

\* names of the module namespace
Names == {"pyximport", "CompileError", "bottleneck_distance", "wasserstein"}
Unbound == "unbound"

\* the modules the body tries to import
Modules == {"pyximport", "distutils.errors", ".gudhi_bottleneck", "gudhi", ".hera_wasserstein"}
Untried == "untried"
Ok == "ok"
\* module missing, import error, build failure of a .pyx module
Failures == {"ModuleNotFoundError", "ImportError", "CompileError"}

\* the objects a name can be bound to
GudhiBottleneckFn == ".gudhi_bottleneck.bottleneck_distance"
GudhiFn == "gudhi.bottleneck_distance"
HeraFn == ".hera_wasserstein.wasserstein"
StubFn == "wasserstein_stub"

GudhiNotice == "Using original gudhi bottleneck_distance."
WassersteinNotice == "Function wasserstein_distance not available."

PyxImporter == "PyxImporter"
PathFinder == "PathFinder"

\* Python's None, and a returned number v
None == <<>>
Some(v) == <<v>>

\* persistence diagrams handed to the resolved functions
Diagrams == {<<>>, << <<0, 1>> >>}
\* an optional argument: omitted, or a value
OptArgs == {None} \cup {Some(v) : v \in 1..MaxArg}

NoCall == [fn |-> "none", args |-> <<>>, result |-> None, raised |-> FALSE, computed |-> FALSE]

Init ==
    /\ pc = "L1"
    /\ ns = [n \in Names |-> Unbound]
    /\ writes = [n \in Names |-> 0]
    /\ stdout = <<>>
    /\ metaPath \in {<<PathFinder>>, <<PathFinder, PyxImporter>>}
    /\ metaPath0 = metaPath
    /\ loaded = [m \in Modules |-> Untried]
    /\ exc = "none"
    /\ ncalls = 0
    /\ lastCall = NoCall

\* binding a name in the module namespace
Bind(name, value) ==
    /\ ns' = [ns EXCEPT ![name] = value]
    /\ writes' = [writes EXCEPT ![name] = @ + 1]

\* an exception that no handler catches leaves the module body
Escape(e) ==
    /\ pc' = "failed"
    /\ exc' = e

\* line 1: import pyximport
ImportPyximportOk ==
    /\ pc = "L1"
    /\ loaded' = [loaded EXCEPT !["pyximport"] = Ok]
    /\ Bind("pyximport", "module pyximport")
    /\ pc' = "L2"
    /\ UNCHANGED <<stdout, metaPath, metaPath0, exc, ncalls, lastCall>>

ImportPyximportFail ==
    /\ pc = "L1"
    /\ \E e \in Failures :
         /\ loaded' = [loaded EXCEPT !["pyximport"] = e]
         /\ Escape(e)
    /\ UNCHANGED <<ns, writes, stdout, metaPath, metaPath0, ncalls, lastCall>>

\* variant: appends the importer without looking for an installed one
install_Always(path) == Append(path, PyxImporter)

\* pyximport.install(): appends the .pyx importer unless one is installed
install(path) ==
    IF \E i \in 1..Len(path) : path[i] = PyxImporter
    THEN path
    ELSE Append(path, PyxImporter)

\* line 2: pyximport.install()
PyximportInstall ==
    /\ pc = "L2"
    /\ metaPath' = install(metaPath)
    /\ pc' = "L3"
    /\ UNCHANGED <<ns, writes, stdout, metaPath0, loaded, exc, ncalls, lastCall>>

\* line 3: from distutils.errors import CompileError
ImportCompileErrorOk ==
    /\ pc = "L3"
    /\ loaded' = [loaded EXCEPT !["distutils.errors"] = Ok]
    /\ Bind("CompileError", "class CompileError")
    /\ pc' = "L6"
    /\ UNCHANGED <<stdout, metaPath, metaPath0, exc, ncalls, lastCall>>

ImportCompileErrorFail ==
    /\ pc = "L3"
    /\ \E e \in Failures :
         /\ loaded' = [loaded EXCEPT !["distutils.errors"] = e]
         /\ Escape(e)
    /\ UNCHANGED <<ns, writes, stdout, metaPath, metaPath0, ncalls, lastCall>>

\* variant: the fallback of lines 8-9 also runs after a successful import
ImportGudhiBottleneckOk_FallThrough ==
    /\ pc = "L6"
    /\ loaded' = [loaded EXCEPT ![".gudhi_bottleneck"] = Ok]
    /\ Bind("bottleneck_distance", GudhiBottleneckFn)
    /\ pc' = "L8"
    /\ UNCHANGED <<stdout, metaPath, metaPath0, exc, ncalls, lastCall>>

\* lines 5-6: try: from .gudhi_bottleneck import bottleneck_distance
ImportGudhiBottleneckOk ==
    /\ pc = "L6"
    /\ loaded' = [loaded EXCEPT ![".gudhi_bottleneck"] = Ok]
    /\ Bind("bottleneck_distance", GudhiBottleneckFn)
    /\ pc' = "L12"
    /\ UNCHANGED <<stdout, metaPath, metaPath0, exc, ncalls, lastCall>>

\* variant: the handler prints its notice before it imports the fallback
ImportGudhiBottleneckFail_PrintFirst ==
    /\ pc = "L6"
    /\ \E e \in Failures :
         loaded' = [loaded EXCEPT ![".gudhi_bottleneck"] = e]
    /\ stdout' = Append(stdout, GudhiNotice)
    /\ pc' = "L8"
    /\ UNCHANGED <<ns, writes, metaPath, metaPath0, exc, ncalls, lastCall>>

\* lines 5-7: the import raises and the bare except catches it
ImportGudhiBottleneckFail ==
    /\ pc = "L6"
    /\ \E e \in Failures :
         loaded' = [loaded EXCEPT ![".gudhi_bottleneck"] = e]
    /\ pc' = "L8"
    /\ UNCHANGED <<ns, writes, stdout, metaPath, metaPath0, exc, ncalls, lastCall>>

\* line 8: from gudhi import bottleneck_distance (inside the handler)
ImportGudhiOk ==
    /\ pc = "L8"
    /\ loaded' = [loaded EXCEPT !["gudhi"] = Ok]
    /\ Bind("bottleneck_distance", GudhiFn)
    /\ pc' = "L9"
    /\ UNCHANGED <<stdout, metaPath, metaPath0, exc, ncalls, lastCall>>

\* line 8 raises: no handler encloses the handler
ImportGudhiFail ==
    /\ pc = "L8"
    /\ \E e \in Failures :
         /\ loaded' = [loaded EXCEPT !["gudhi"] = e]
         /\ Escape(e)
    /\ UNCHANGED <<ns, writes, stdout, metaPath, metaPath0, ncalls, lastCall>>

\* line 9: print("Using original gudhi bottleneck_distance.")
PrintGudhiNotice ==
    /\ pc = "L9"
    /\ stdout' = Append(stdout, GudhiNotice)
    /\ pc' = "L12"
    /\ UNCHANGED <<ns, writes, metaPath, metaPath0, loaded, exc, ncalls, lastCall>>

\* variant: the notice of line 16 is printed outside the handler
ImportHeraOk_Notice ==
    /\ pc = "L12"
    /\ loaded' = [loaded EXCEPT ![".hera_wasserstein"] = Ok]
    /\ Bind("wasserstein", HeraFn)
    /\ stdout' = Append(stdout, WassersteinNotice)
    /\ pc' = "done"
    /\ UNCHANGED <<metaPath, metaPath0, exc, ncalls, lastCall>>

\* variant: the def of line 14 also runs after a successful import
ImportHeraOk_FallThrough ==
    /\ pc = "L12"
    /\ loaded' = [loaded EXCEPT ![".hera_wasserstein"] = Ok]
    /\ Bind("wasserstein", HeraFn)
    /\ pc' = "L14"
    /\ UNCHANGED <<stdout, metaPath, metaPath0, exc, ncalls, lastCall>>

\* lines 11-12: try: from .hera_wasserstein import wasserstein
ImportHeraOk ==
    /\ pc = "L12"
    /\ loaded' = [loaded EXCEPT ![".hera_wasserstein"] = Ok]
    /\ Bind("wasserstein", HeraFn)
    /\ pc' = "done"
    /\ UNCHANGED <<stdout, metaPath, metaPath0, exc, ncalls, lastCall>>

\* lines 11-13: the import raises and the bare except catches it
ImportHeraFail ==
    /\ pc = "L12"
    /\ \E e \in Failures :
         loaded' = [loaded EXCEPT ![".hera_wasserstein"] = e]
    /\ pc' = "L14"
    /\ UNCHANGED <<ns, writes, stdout, metaPath, metaPath0, exc, ncalls, lastCall>>

\* variant: the handler only prints, the def is missing
DefWasserstein_Missing ==
    /\ pc = "L14"
    /\ pc' = "L16"
    /\ UNCHANGED <<ns, writes, stdout, metaPath, metaPath0, loaded, exc, ncalls, lastCall>>

\* lines 14-15: def wasserstein(diagram_1, diagram_2, p = 1, delta = 0.01)
DefWasserstein ==
    /\ pc = "L14"
    /\ Bind("wasserstein", StubFn)
    /\ pc' = "L16"
    /\ UNCHANGED <<stdout, metaPath, metaPath0, loaded, exc, ncalls, lastCall>>

\* line 16: print("Function wasserstein_distance not available.")
PrintWassersteinNotice ==
    /\ pc = "L16"
    /\ stdout' = Append(stdout, WassersteinNotice)
    /\ pc' = "done"
    /\ UNCHANGED <<ns, writes, metaPath, metaPath0, loaded, exc, ncalls, lastCall>>

\* the parameters of def wasserstein, with the defaults of line 14
StubParams(d1, d2, pOpt, deltaOpt) ==
    [diagram_1 |-> d1, diagram_2 |-> d2,
     p |-> IF pOpt = None THEN DefaultP ELSE pOpt[1],
     delta |-> IF deltaOpt = None THEN DefaultDelta ELSE deltaOpt[1]]

\* variant: the body returns 0 instead of falling off its end
wasserstein_ReturnZero(params) ==
    [result |-> Some(0), raised |-> FALSE, computed |-> FALSE]

\* line 15: the body is pass, so the call returns None
wasserstein(params) ==
    [result |-> None, raised |-> FALSE, computed |-> FALSE]

\* a caller, after the import of the module, calls bottleneck_distance
CallBottleneckDistance ==
    /\ pc = "done"
    /\ ncalls < MaxCalls
    /\ \E d1 \in Diagrams, d2 \in Diagrams, v \in 0..MaxDist :
         lastCall' = [fn |-> ns["bottleneck_distance"], args |-> <<d1, d2>>,
                      result |-> Some(v), raised |-> FALSE, computed |-> TRUE]
    /\ ncalls' = ncalls + 1
    /\ UNCHANGED <<pc, ns, writes, stdout, metaPath, metaPath0, loaded, exc>>

\* a caller calls wasserstein when it is the accelerated backend's function
CallWassersteinBackend ==
    /\ pc = "done"
    /\ ncalls < MaxCalls
    /\ ns["wasserstein"] = HeraFn
    /\ \E d1 \in Diagrams, d2 \in Diagrams, p \in OptArgs, delta \in OptArgs,
          v \in 0..MaxDist :
         lastCall' = [fn |-> HeraFn, args |-> <<d1, d2, p, delta>>,
                      result |-> Some(v), raised |-> FALSE, computed |-> TRUE]
    /\ ncalls' = ncalls + 1
    /\ UNCHANGED <<pc, ns, writes, stdout, metaPath, metaPath0, loaded, exc>>

\* a caller calls wasserstein when it is the function of lines 14-15
CallWassersteinStub ==
    /\ pc = "done"
    /\ ncalls < MaxCalls
    /\ ns["wasserstein"] = StubFn
    /\ \E d1 \in Diagrams, d2 \in Diagrams, p \in OptArgs, delta \in OptArgs :
         LET r == wasserstein(StubParams(d1, d2, p, delta))
         IN lastCall' = [fn |-> StubFn, args |-> <<d1, d2, p, delta>>,
                         result |-> r.result, raised |-> r.raised,
                         computed |-> r.computed]
    /\ ncalls' = ncalls + 1
    /\ UNCHANGED <<pc, ns, writes, stdout, metaPath, metaPath0, loaded, exc>>

Next ==
    \/ ImportPyximportOk
    \/ ImportPyximportFail
    \/ PyximportInstall
    \/ ImportCompileErrorOk
    \/ ImportCompileErrorFail
    \/ ImportGudhiBottleneckOk
    \/ ImportGudhiBottleneckFail
    \/ ImportGudhiOk
    \/ ImportGudhiFail
    \/ PrintGudhiNotice
    \/ ImportHeraOk
    \/ ImportHeraFail
    \/ DefWasserstein
    \/ PrintWassersteinNotice
    \/ CallBottleneckDistance
    \/ CallWassersteinBackend
    \/ CallWassersteinStub

Spec == Init /\ [][Next]_vars

\* ---- properties ----

Callables == {GudhiBottleneckFn, GudhiFn, HeraFn, StubFn}
Terminated == pc \in {"done", "failed"}
Count(s) == Cardinality({i \in 1..Len(stdout) : stdout[i] = s})
Printed(s) == Count(s) > 0

\* C1: when the module body has run to its end, bottleneck_distance and
\* wasserstein are both bound to a callable, whatever the two accelerated
\* imports did.
C1_BothBound ==
    pc = "done" =>
        /\ ns["bottleneck_distance"] \in Callables
        /\ ns["wasserstein"] \in Callables

C1_Witness ==
    /\ pc = "done"
    /\ ns["bottleneck_distance"] = GudhiFn
    /\ ns["wasserstein"] = StubFn

\* C2: a name whose accelerated import succeeded is bound to that backend's
\* function, not to the gudhi fallback or the stub, and at the end of the
\* body each of the two names has been given exactly one implementation.
C2_PreferAccelerated ==
    /\ loaded[".gudhi_bottleneck"] = Ok =>
           ns["bottleneck_distance"] = GudhiBottleneckFn
    /\ loaded[".hera_wasserstein"] = Ok => ns["wasserstein"] = HeraFn
    /\ pc = "done" =>
           /\ writes["bottleneck_distance"] = 1
           /\ writes["wasserstein"] = 1

C2_Witness ==
    /\ pc = "done"
    /\ loaded[".gudhi_bottleneck"] = Ok
    /\ loaded[".hera_wasserstein"] = Ok

\* C3: once the import of .gudhi_bottleneck has failed and its handler is
\* over, bottleneck_distance is gudhi's function and the notice "Using
\* original gudhi bottleneck_distance." has been printed.
C3_FallbackAlways ==
    (loaded[".gudhi_bottleneck"] \in Failures /\ pc \notin {"L6", "L8", "L9"}) =>
        /\ ns["bottleneck_distance"] = GudhiFn
        /\ Printed(GudhiNotice)

\* C4: after a failed import of .hera_wasserstein the name wasserstein is
\* the stub of lines 14-15, and every call of the stub, with p and delta
\* given or omitted, returns None without raising and without computing,
\* the notice having been printed before the call.
C4_StubInert ==
    /\ (loaded[".hera_wasserstein"] \in Failures /\ pc \in {"L16", "done"}) =>
           ns["wasserstein"] = StubFn
    /\ (loaded[".hera_wasserstein"] \in Failures /\ pc = "done") =>
           Printed(WassersteinNotice)
    /\ lastCall.fn = StubFn =>
           /\ lastCall.result = None
           /\ ~lastCall.raised
           /\ ~lastCall.computed
           /\ Printed(WassersteinNotice)

C4_Witness ==
    /\ lastCall.fn = StubFn
    /\ lastCall.args[3] = None
    /\ lastCall.args[4] # None

\* C5: whatever happened while bottleneck_distance was resolved, the fallback
\* import included, wasserstein is resolved when the body is over; and a
\* failed import of .hera_wasserstein leaves bottleneck_distance bound.
C5_Independent ==
    /\ (Terminated /\ loaded[".gudhi_bottleneck"] # Untried) =>
           /\ loaded[".hera_wasserstein"] # Untried
           /\ ns["wasserstein"] \in {HeraFn, StubFn}
    /\ loaded[".hera_wasserstein"] \in Failures =>
           ns["bottleneck_distance"] \in {GudhiBottleneckFn, GudhiFn}

\* C6: no failed import made while resolving the two names lets an
\* exception leave the module body.
C6_NeverFatal ==
    (\E m \in {".gudhi_bottleneck", "gudhi", ".hera_wasserstein"} :
        loaded[m] \in Failures) =>
        /\ exc = "none"
        /\ pc # "failed"

\* C7: when the body is over, each notice has been printed once if its name
\* is bound to the fallback or the stub and not at all otherwise, so the
\* number of lines printed is the number of degraded names; a name whose
\* accelerated import succeeded never has its notice printed.
C7_OneNoticePerDegraded ==
    /\ Terminated =>
           /\ Count(GudhiNotice) =
                  (IF ns["bottleneck_distance"] = GudhiFn THEN 1 ELSE 0)
           /\ Count(WassersteinNotice) =
                  (IF ns["wasserstein"] = StubFn THEN 1 ELSE 0)
           /\ Len(stdout) = Count(GudhiNotice) + Count(WassersteinNotice)
    /\ loaded[".gudhi_bottleneck"] = Ok => ~Printed(GudhiNotice)
    /\ loaded[".hera_wasserstein"] = Ok => ~Printed(WassersteinNotice)

C7_Witness ==
    /\ pc = "done"
    /\ loaded[".gudhi_bottleneck"] = Ok
    /\ stdout = <<WassersteinNotice>>

\* C8 as stated: the import machinery (sys.meta_path) is what it was before
\* the module was imported.
C8_NoOtherEffect == metaPath = metaPath0

\* C8 amended: besides the bindings and the notices, the only change is the
\* one made by pyximport.install() at line 2: sys.meta_path is either what
\* it was, or what it was with the pyximport importer appended, and the
\* latter only after line 2 ran with no such importer installed.
C8_OnlyInstallHook ==
    \/ metaPath = metaPath0
    \/ /\ metaPath = Append(metaPath0, PyxImporter)
       /\ \A i \in 1..Len(metaPath0) : metaPath0[i] # PyxImporter
       /\ pc \notin {"L1", "L2"}
       /\ loaded["pyximport"] = Ok

C8_Witness ==
    /\ pc = "done"
    /\ metaPath # metaPath0

\* C9: each of the two names is written at most once, exactly once on every
\* path that reaches the end of the body, and once bound it is never bound
\* again, in particular not by a call of a resolved function.
C9_WrittenOnce ==
    /\ [](\A n \in {"bottleneck_distance", "wasserstein"} : writes[n] <= 1)
    /\ [](pc = "done" =>
            \A n \in {"bottleneck_distance", "wasserstein"} : writes[n] = 1)
    /\ [][\A n \in {"bottleneck_distance", "wasserstein"} :
            ns[n] # Unbound => ns'[n] = ns[n]]_vars

C9_Witness ==
    /\ pc = "done"
    /\ ncalls >= 1
    /\ lastCall.fn = HeraFn
    /\ writes["bottleneck_distance"] = 1
    /\ writes["wasserstein"] = 1

\* C10: the import of .hera_wasserstein is tried only after
\* bottleneck_distance is bound and, if it is the fallback, its notice is
\* printed; when both notices are printed the gudhi one comes first; and a
\* notice is printed only after the binding it reports.
C10_Sequential ==
    /\ loaded[".hera_wasserstein"] # Untried =>
           /\ ns["bottleneck_distance"] # Unbound
           /\ ns["bottleneck_distance"] = GudhiFn => Printed(GudhiNotice)
    /\ (Printed(GudhiNotice) /\ Printed(WassersteinNotice)) =>
           stdout = <<GudhiNotice, WassersteinNotice>>
    /\ Printed(GudhiNotice) => ns["bottleneck_distance"] = GudhiFn
    /\ Printed(WassersteinNotice) => ns["wasserstein"] = StubFn

C10_Witness == stdout = <<GudhiNotice, WassersteinNotice>>

====
